---- MODULE Spec2Model ----
(***************************************************************************)
(* Model of the Tharnax installation lifecycle orchestrator                *)
(* (tharnax-web/backend/app/routers/install.py) and of the parts of the    *)
(* deployer (services/installer.py) that decide its behaviour.             *)
(*                                                                         *)
(* The process is a single asyncio event loop.  A request handler has no   *)
(* await in it, so each handler is one atomic action.  A background        *)
(* wrapper is cut into actions at its awaits (asyncio.sleep, an awaited    *)
(* deployer coroutine that itself suspends).  The cluster is an external   *)
(* collaborator: every probe of it is an input of the action that makes    *)
(* the probe, drawn from a bounded set of observations.                    *)
(***************************************************************************)
EXTENDS Integers, FiniteSets, Sequences, TLC

VARIABLES
    installation_status,    \* the module-level dict of install.py: id -> entry
    tasks,                  \* background wrappers scheduled or running
    accepted,               \* the operations accepted so far, in order
    resp,                   \* response of the handler that ran in the last step
    run                     \* what the clients and the cluster of this run are bounded to

vars == <<installation_status, tasks, accepted, resp, run>>

----------------------------------------------------------------------------
(* Bounds of the model *)

\* Most pods a probe counts in running_pods beyond the expected number.
MaxExtraPods == 1
\* Most pods a probe reports present but not in running_pods.
MaxUnreadyPods == 1
\* Most operations accepted in one run.
MaxOps == 2
\* Most pods in running_pods in a run that accepts MaxOps operations.
MaxFewPods == 1

----------------------------------------------------------------------------
(* Component Registry *)

VALID_COMPONENTS == {"jellyfin", "sonarr", "prometheus", "grafana", "monitoring", "argocd"}

\* One id outside VALID_COMPONENTS stands for every unknown id.
ComponentIds == VALID_COMPONENTS \cup {"unknown"}

APP_REGISTRY ==
    [c \in {"monitoring", "argocd", "jellyfin", "sonarr"} |->
        [found |-> TRUE, can_uninstall |-> (c # "argocd"), namespace |-> c]]

\* APP_REGISTRY.get(component) of an id that has no entry: Python's None.
NoConfig == [found |-> FALSE, can_uninstall |-> FALSE, namespace |-> "None"]

None == "None"

get_app_config(component) ==
    IF component \in DOMAIN APP_REGISTRY THEN APP_REGISTRY[component] ELSE NoConfig

\* can_uninstall_component that looks only for the registry entry.
can_uninstall_component_FlagIgnored(component) ==
    get_app_config(component).found

can_uninstall_component(component) ==
    LET app_config == get_app_config(component)
    IN  app_config.found /\ app_config.can_uninstall

\* IsValid with the membership test left out.
IsValid_Unchecked(component) == TRUE

\* component in VALID_COMPONENTS (install.py lines 33, 78, 129, 571)
IsValid(component) == component \in VALID_COMPONENTS

\* The status values for which uninstall_app and restart_app refuse to start.
BusyStatuses == {"installing", "uninstalling", "restarting"}

\* The status values for which install_app refuses to start.
InstallBusyStatuses == {"installing"}

----------------------------------------------------------------------------
(* Cluster probes *)

\* The components whose wrappers and status reads sample the pods.
PodTracked == {"monitoring", "jellyfin"}

\* expected_pods of install.py (lines 204, 280, 591, 724); the other
\* components run as a single pod.
ExpectedPods(component) == IF component = "monitoring" THEN 8 ELSE 1

\* What list_namespaced_pod can answer: a pod list, reduced to the two counts
\* the code reads, len(pods.items) and len(running_pods), or a failure.
\* running_pods is filtered as the place of the probe filters it: the pods in
\* phase Running (restart_app), or the pods in phase Running whose containers
\* are all ready (everywhere else).
Pods(total, running_pods) ==
    [fail |-> "ok", total |-> total, running_pods |-> running_pods, ns |-> "n/a"]

\* The pod lists with up to `most` pods in running_pods and up to
\* MaxUnreadyPods pods outside it.
PodLists(most) ==
    { Pods(x[1] + x[2], x[1]) : x \in (0..most) \X (0..MaxUnreadyPods) }

\* Most pods of a component that are ever in running_pods: MaxExtraPods more
\* than it is expected to have.
MostPods(component) == ExpectedPods(component) + MaxExtraPods

\* The pod lists observed for a component in this run.
PodObs(component) ==
    PodLists(IF run.pods < MostPods(component) THEN run.pods ELSE MostPods(component))

\* ApiException with status 404, any other ApiException, any other exception.
NotFound == "ApiException404"
ApiError == "ApiException"
Unreachable == "Exception"
FailureKinds == {NotFound, ApiError, Unreachable}

Failure(kind) == [fail |-> kind, total |-> 0, running_pods |-> 0, ns |-> "n/a"]

PodProbes(component) == PodObs(component) \cup {Failure(k) : k \in FailureKinds}

\* What list_namespace tells about one component: its namespace is listed, is
\* not listed, or the call fails.
Namespaces(ns) == [fail |-> "ok", total |-> 0, running_pods |-> 0, ns |-> ns]

NamespaceProbes ==
    {Namespaces("present"), Namespaces("missing")} \cup {Failure(k) : k \in FailureKinds}

\* No probe was made.
NoProbe == [fail |-> "none", total |-> 0, running_pods |-> 0, ns |-> "n/a"]

Failed(probe) == probe.fail \in FailureKinds

Absent == 0 - 1

----------------------------------------------------------------------------
(* The status table *)

\* Entry that stores the status of the response in place of the operation's.
Entry_ResponseStatus(component, status, message, started_at) ==
    [status |-> "started", progress |-> 0, message |-> message,
     started_at |-> started_at, component |-> component]

Entry(component, status, message, started_at) ==
    [status |-> status, progress |-> 0, message |-> message,
     started_at |-> started_at, component |-> component]

HasEntry(component) == component \in DOMAIN installation_status

StoredStatus(component) ==
    IF HasEntry(component) THEN installation_status[component].status ELSE None

\* installation_status[component] = entry
Store(table, component, entry) ==
    [k \in (DOMAIN table) \cup {component} |->
        IF k = component THEN entry ELSE table[k]]

\* installation_status[component]["status"/"progress"/"message"] = ...
Write(table, component, status, progress, message) ==
    Store(table, component,
          [table[component] EXCEPT !.status = status, !.progress = progress,
                                   !.message = message])

WriteProgress(table, component, progress, message) ==
    Store(table, component,
          [table[component] EXCEPT !.progress = progress, !.message = message])

----------------------------------------------------------------------------
(* Responses *)

Response(op, component, http, status, progress, message) ==
    [op |-> op, component |-> component, http |-> http, status |-> status,
     progress |-> progress, message |-> message,
     pods_running |-> Absent, total_pods |-> Absent, started_at |-> Absent,
     stored |-> None, probe |-> NoProbe]

NoResponse == Response("none", None, 0, None, Absent, None)

HttpError(op, component, http) == Response(op, component, http, "http_error", Absent, "detail")

\* A background wrapper as add_task leaves it: not yet run.
NewTask(component, kind, op) ==
    [op |-> op, component |-> component, kind |-> kind, pc |-> "scheduled",
     dep |-> "idle", step |-> 0, initial |-> 0, wait |-> 0, restart_started |-> FALSE]

TasksOf(component) == {t \in tasks : t.component = component}

Max(a, b) == IF a >= b THEN a ELSE b
Min(a, b) == IF a <= b THEN a ELSE b

----------------------------------------------------------------------------
(* Request handlers: install_app, uninstall_app, restart_app *)

\* InstallGuardRejects comparing with the status a finished install leaves.
InstallGuardRejects_WrongStatus(component) ==
    HasEntry(component) /\ installation_status[component].status = "completed"

\* InstallGuardRejects that looks at the entries of all components.
InstallGuardRejects_AnyComponent(component) ==
    \E k \in DOMAIN installation_status :
        installation_status[k].status \in InstallBusyStatuses

\* install.py line 37: the only stored status that makes install_app refuse.
InstallGuardRejects(component) ==
    HasEntry(component) /\ installation_status[component].status \in InstallBusyStatuses

\* BusyGuardRejects that looks for a running uninstall only.
BusyGuardRejects_UninstallOnly(component) ==
    HasEntry(component) /\ installation_status[component].status = "uninstalling"

\* install.py lines 88 and 157: the guard of uninstall_app and restart_app.
BusyGuardRejects(component) ==
    HasEntry(component) /\ installation_status[component].status \in BusyStatuses

\* datetime.now() of the next accepted operation: its place in the order of
\* the accepted operations.
Now == Len(accepted) + 1

\* Accept that updates the stored entry in place when there is one.
Accept_InPlace(op, component, status, message) ==
    /\ Len(accepted) < run.ops
    /\ accepted' = Append(accepted, [op |-> op, component |-> component])
    /\ installation_status' =
          IF HasEntry(component)
          THEN Store(installation_status, component,
                     [installation_status[component]
                         EXCEPT !.status = status, !.message = message])
          ELSE Store(installation_status, component,
                     Entry(component, status, message, Now))
    /\ tasks' = tasks \cup {NewTask(component, op, Now)}

\* The three handlers end alike when they accept: a fresh entry replaces the
\* stored one, the wrapper is handed to BackgroundTasks, "started" is returned.
Accept(op, component, status, message) ==
    /\ Len(accepted) < run.ops
    /\ accepted' = Append(accepted, [op |-> op, component |-> component])
    /\ installation_status' =
          Store(installation_status, component,
                Entry(component, status, message, Now))
    /\ tasks' = tasks \cup {NewTask(component, op, Now)}

Reject(response) ==
    /\ resp' = response
    /\ UNCHANGED <<installation_status, tasks, accepted>>

install_app(component) ==
    /\ resp = NoResponse
    /\ component \in run.ids
    /\ UNCHANGED run
    /\ LET stored == StoredStatus(component) IN
       IF ~IsValid(component)
       THEN Reject(HttpError("install", component, 404))
       ELSE IF InstallGuardRejects(component)
       THEN Reject([Response("install", component, 200, "already_installing", Absent,
                             "already in progress") EXCEPT !.stored = stored])
       ELSE /\ Accept("install", component, "installing", "Starting installation")
            /\ resp' = [Response("install", component, 200, "started", 0,
                                 "Installation started") EXCEPT !.stored = stored]

uninstall_app(component) ==
    /\ resp = NoResponse
    /\ component \in run.ids
    /\ UNCHANGED run
    /\ LET stored == StoredStatus(component) IN
       IF ~IsValid(component)
       THEN Reject(HttpError("uninstall", component, 404))
       ELSE IF ~can_uninstall_component(component)
       THEN Reject([HttpError("uninstall", component, 403) EXCEPT !.stored = stored])
       ELSE IF BusyGuardRejects(component)
       THEN Reject([Response("uninstall", component, 200, "already_processing", Absent,
                             "already being processed") EXCEPT !.stored = stored])
       ELSE /\ Accept("uninstall", component, "uninstalling", "Starting uninstallation")
            /\ resp' = [Response("uninstall", component, 200, "started", 0,
                                 "Uninstallation started") EXCEPT !.stored = stored]

\* RestartPodCheck without the test for pods in phase Running.
RestartPodCheck_AnyPod(probe) ==
    IF probe.fail = NotFound THEN 400
    ELSE IF Failed(probe) THEN 500
    ELSE IF probe.total = 0 THEN 400
    ELSE 200

\* install.py lines 142-155: the pod check of restart_app; the HTTP status it
\* raises, or 200 when at least one pod is in phase Running.
RestartPodCheck(probe) ==
    IF probe.fail = NotFound THEN 400
    ELSE IF Failed(probe) THEN 500
    ELSE IF probe.total = 0 THEN 400
    ELSE IF probe.running_pods = 0 THEN 400
    ELSE 200

\* Does restart_app reach its pod check (line 143).
RestartProbes(component) ==
    IF IsValid(component) /\ can_uninstall_component(component)
    THEN PodProbes(component) ELSE {NoProbe}

restart_app(component, probe) ==
    /\ resp = NoResponse
    /\ component \in run.ids
    /\ probe \in RestartProbes(component)
    /\ UNCHANGED run
    /\ LET stored == StoredStatus(component) IN
       IF ~IsValid(component)
       THEN Reject(HttpError("restart", component, 404))
       ELSE IF ~can_uninstall_component(component)
       THEN Reject([HttpError("restart", component, 403) EXCEPT !.stored = stored])
       ELSE IF RestartPodCheck(probe) # 200
       THEN Reject([HttpError("restart", component, RestartPodCheck(probe))
                        EXCEPT !.stored = stored, !.probe = probe])
       ELSE IF BusyGuardRejects(component)
       THEN Reject([Response("restart", component, 200, "already_processing", Absent,
                             "already being processed")
                        EXCEPT !.stored = stored, !.probe = probe])
       ELSE /\ Accept("restart", component, "restarting", "Starting rollout restart")
            /\ resp' = [Response("restart", component, 200, "started", 0,
                                 "Rollout restart started")
                            EXCEPT !.stored = stored, !.probe = probe]

----------------------------------------------------------------------------
(* Status read: get_install_status *)

\* PodProgress without the cap of min(..., 70).
PodProgress_NoCap(ready, expected) == 15 + (ready * 70) \div expected

\* 15 + min((len(running_pods) / expected_pods) * 70, 70), as int() leaves it.
PodProgress(ready, expected) == 15 + Min((ready * 70) \div expected, 70)

\* install.py lines 607-613 and 740-746: progress of a read that finds pods
\* while the stored status is installing.
InstallingReadProgress(stored_progress, ready, expected) ==
    Max(Max(stored_progress, 15), PodProgress(ready, expected))

\* DowngradeProgress without its base of 90.
DowngradeProgress_NoBase(ready, expected) == (ready * 10) \div expected

\* install.py lines 630 and 763: progress of a read that downgrades completed.
DowngradeProgress(ready, expected) == Max(90, 90 + (ready * 10) \div expected)

\* install.py lines 640-645: progress of a read while monitoring restarts.
RestartingReadProgress(stored_progress, ready, expected) ==
    Max(Max(stored_progress, 20), 25 + Min((ready * 65) \div expected, 65))

\* install.py line 620 (len(running_pods) >= expected_pods * 0.75) and line 753
\* (len(running_pods) >= expected_pods): does a read keep a stored completed.
ReadSeesCompleted(component, ready) ==
    IF component = "monitoring"
    THEN ready * 4 >= ExpectedPods(component) * 3
    ELSE ready >= ExpectedPods(component)

\* InstalledThreshold taken from the expected number of pods.
InstalledThreshold_Expected(component) == ExpectedPods(component)

\* install.py lines 694 and 803: ready pods that make a component without an
\* entry count as installed.
InstalledThreshold(component) == IF component = "monitoring" THEN 3 ELSE 1

\* return status_info
FromEntry(component, entry) ==
    [Response("status", component, 200, entry.status, entry.progress, entry.message)
        EXCEPT !.started_at = entry.started_at]

WithPods(response, ready, total) ==
    [response EXCEPT !.pods_running = ready, !.total_pods = total]

NotInstalled(component) ==
    Response("status", component, 200, "not_installed", 0, "is not installed")

\* install.py lines 579-820: the monitoring and jellyfin branches.
PodTrackedStatus(component, probe) ==
    LET expected_pods == ExpectedPods(component) IN
    IF HasEntry(component)
    THEN LET status_info == installation_status[component] IN
         IF Failed(probe) THEN FromEntry(component, status_info)
         ELSE IF probe.total > 0
         THEN IF status_info.status = "installing"
              THEN WithPods(Response("status", component, 200, "installing",
                                     InstallingReadProgress(status_info.progress,
                                                            probe.running_pods, expected_pods),
                                     "pods starting"),
                            probe.running_pods, probe.total)
              ELSE IF status_info.status = "completed"
              THEN IF ReadSeesCompleted(component, probe.running_pods)
                   THEN WithPods(Response("status", component, 200, "completed", 100,
                                          "deployed successfully"),
                                 probe.running_pods, probe.total)
                   ELSE WithPods(Response("status", component, 200, "installing",
                                          DowngradeProgress(probe.running_pods, expected_pods),
                                          "Installation complete, pods starting"),
                                 probe.running_pods, probe.total)
              ELSE IF status_info.status = "restarting" /\ component = "monitoring"
              THEN WithPods(Response("status", component, 200, "restarting",
                                     RestartingReadProgress(status_info.progress,
                                                            probe.running_pods, expected_pods),
                                     "Restarting pods"),
                            probe.running_pods, probe.total)
              ELSE WithPods(FromEntry(component, status_info), probe.running_pods, probe.total)
         ELSE IF status_info.status = "installing"
              THEN WithPods(Response("status", component, 200, "installing",
                                     Max(status_info.progress, 10), status_info.message),
                            0, 0)
              ELSE FromEntry(component, status_info)
    ELSE IF ~Failed(probe) /\ probe.total > 0
            /\ probe.running_pods >= InstalledThreshold(component)
         THEN WithPods(Response("status", component, 200, "installed", 100,
                                "is already installed"),
                       probe.running_pods, probe.total)
         ELSE NotInstalled(component)

\* GenericStatus without the outer except clause (lines 858-865): a failure
\* of list_namespace leaves the handler as an exception.
GenericStatus_Raises(component, probe) ==
    IF Failed(probe) THEN HttpError("status", component, 500)
    ELSE IF HasEntry(component)
    THEN LET status_info == installation_status[component] IN
         IF status_info.status = "completed" /\ probe.ns # "present"
         THEN [FromEntry(component, status_info)
                   EXCEPT !.status = "error",
                          !.message = "reported complete but not found"]
         ELSE FromEntry(component, status_info)
    ELSE IF probe.ns = "present"
         THEN Response("status", component, 200, "installed", 100, "is already installed")
         ELSE NotInstalled(component)

\* install.py lines 823-865: every other valid component.
GenericStatus(component, probe) ==
    IF HasEntry(component)
    THEN LET status_info == installation_status[component] IN
         IF status_info.status = "completed"
         THEN IF Failed(probe)
              THEN Response("status", component, 200, "error", 0, "Error checking status")
              ELSE IF probe.ns # "present"
              THEN [FromEntry(component, status_info)
                        EXCEPT !.status = "error",
                               !.message = "reported complete but not found"]
              ELSE FromEntry(component, status_info)
         ELSE FromEntry(component, status_info)
    ELSE IF Failed(probe)
         THEN Response("status", component, 200, "error", 0, "Error checking status")
         ELSE IF probe.ns = "present"
         THEN Response("status", component, 200, "installed", 100, "is already installed")
         ELSE NotInstalled(component)

\* Does the read probe the cluster, and with which call.
StatusProbes(component) ==
    IF ~IsValid(component) THEN {NoProbe}
    ELSE IF component \in PodTracked THEN PodProbes(component)
    ELSE IF HasEntry(component) /\ installation_status[component].status # "completed"
    THEN {NoProbe}
    ELSE NamespaceProbes

\* StatusResponse that looks at the cluster before it looks at the table.
StatusResponse_ClusterFirst(component, probe) ==
    IF ~IsValid(component) THEN HttpError("status", component, 404)
    ELSE IF component \in PodTracked
    THEN IF ~Failed(probe) /\ probe.total > 0
            /\ probe.running_pods >= InstalledThreshold(component)
         THEN WithPods(Response("status", component, 200, "installed", 100,
                                "is already installed"),
                       probe.running_pods, probe.total)
         ELSE PodTrackedStatus(component, probe)
    ELSE GenericStatus(component, probe)

StatusResponse(component, probe) ==
    IF ~IsValid(component) THEN HttpError("status", component, 404)
    ELSE IF component \in PodTracked THEN PodTrackedStatus(component, probe)
    ELSE GenericStatus(component, probe)

\* StatusRead that stores what it reports in the entry it read.
StatusRead_Persisting(component, probe) ==
    /\ component \in run.ids
    /\ probe \in StatusProbes(component)
    /\ resp' = [StatusResponse(component, probe)
                    EXCEPT !.stored = StoredStatus(component), !.probe = probe]
    /\ installation_status' =
          IF HasEntry(component) /\ resp'.http = 200
          THEN Write(installation_status, component, resp'.status, resp'.progress,
                     resp'.message)
          ELSE installation_status
    /\ UNCHANGED <<tasks, accepted, run>>

\* install.py lines 564-865: a read answers and leaves the table as it is.
StatusRead(component, probe) ==
    /\ component \in run.ids
    /\ probe \in StatusProbes(component)
    /\ resp' = [StatusResponse(component, probe)
                    EXCEPT !.stored = StoredStatus(component), !.probe = probe]
    /\ UNCHANGED <<installation_status, tasks, accepted, run>>

get_install_status(component, probe) ==
    /\ resp = NoResponse
    /\ StatusRead(component, probe)

\* install.py lines 867-875: the answer of GET /status/all, the table itself
\* and the number of its entries.
AllResponse(table) ==
    Response("status_all", None, 200, None, Absent, None)
        @@ [installations |-> table, count |-> Cardinality(DOMAIN table)]

get_all_install_status ==
    /\ resp = NoResponse
    /\ resp' = AllResponse(installation_status)
    /\ UNCHANGED <<installation_status, tasks, accepted, run>>

\* The client that just got a status response polls again at once.
poll_again(component, probe) ==
    /\ resp.op = "status"
    /\ resp.component = component
    /\ StatusRead(component, probe)

----------------------------------------------------------------------------
(* The deployer, as the wrappers see it *)

\* Does the deployer coroutine suspend (await) before it returns?  A coroutine
\* without an await runs to its end in one step of the event loop: started with
\* create_task, it is done before the wrapper that sleeps wakes up.
\*   install: install_monitoring_stack awaits helm, install_component sleeps;
\*            install_jellyfin_stack has no await.
\*   uninstall: every branch awaits a subprocess or a sleep.
\*   restart: restart_component has no await.
DeployerSuspends(kind, component) ==
    IF kind = "install" THEN component # "jellyfin"
    ELSE kind = "uninstall"

\* How one external call of the deployer (cluster API call or subprocess) ends:
\*   "ok"         it does what it was asked;
\*   "exists"     ApiException with status 409;
\*   "not_found"  ApiException with status 404;
\*   "failed"     any other ApiException, or a process that exits non-zero;
\*   "raised"     any other exception (the API server is not reached, the
\*                executable cannot be started);
\*   "skipped"    the deployer of this component makes no such call.
Skipped == "skipped"

\* The external calls of one run of install_component.
InstallCall(namespace, secret, gitops, release) ==
    [namespace |-> namespace, secret |-> secret, gitops |-> gitops, release |-> release]

\* installer.py lines 231-322: create_namespace, then helm repo add, helm repo
\* update and helm install.
install_monitoring_stack(call) ==
    IF call.namespace \in {"failed", "raised"}
    THEN [result |-> "raised", release_invoked |-> FALSE]
    ELSE [result |-> IF call.release = "ok" THEN "true"
                     ELSE IF call.release = "failed" THEN "false"
                     ELSE "raised",
          release_invoked |-> TRUE]

\* installer.py lines 324-500: the repository secret (every failure is
\* logged and passed over), then create_namespaced_custom_object.
install_jellyfin_stack(call) ==
    [result |-> IF call.gitops = "ok" THEN "true"
                ELSE IF call.gitops \in {"exists", "failed"} THEN "false"
                ELSE "raised",
     release_invoked |-> FALSE]

\* install_component whose generic branch passes over every failure of
\* create_namespace.
install_component_AnyNamespace(component, call) ==
    IF component = "monitoring"
    THEN [install_monitoring_stack(call) EXCEPT !.result =
             IF call.namespace \in {"failed", "raised"} THEN "true" ELSE @]
    ELSE IF component = "jellyfin" THEN install_jellyfin_stack(call)
    ELSE [result |-> "true", release_invoked |-> FALSE]

\* installer.py lines 502-539.
install_component(component, call) ==
    IF component = "monitoring" THEN install_monitoring_stack(call)
    ELSE IF component = "jellyfin" THEN install_jellyfin_stack(call)
    ELSE [result |-> IF call.namespace \in {"failed", "raised"} THEN "raised" ELSE "true",
          release_invoked |-> FALSE]

\* The runs of install_component for a component.
InstallCalls(component) ==
    IF component = "monitoring"
    THEN { InstallCall(n, Skipped, Skipped, r) :
              n \in {"ok", "exists", "failed", "raised"}, r \in {"ok", "failed", "raised"} }
    ELSE IF component = "jellyfin"
    THEN { InstallCall(Skipped, s, g, Skipped) :
              s \in {"ok", "exists", "failed"}, g \in {"ok", "exists", "failed", "raised"} }
    ELSE { InstallCall(n, Skipped, Skipped, Skipped) :
              n \in {"ok", "exists", "failed", "raised"} }

\* What install_component returns once its simulated steps are over.
InstallOutcomes(component) ==
    IF component \in PodTracked THEN {"true", "false", "raised"} ELSE {"true"}

\* The external calls of one run of uninstall_component.
UninstallCall(gitops, release, cleanup, namespace) ==
    [gitops |-> gitops, release |-> release, cleanup |-> cleanup, namespace |-> namespace]

\* installer.py lines 541-613: kubectl delete application (in a try), helm
\* uninstall (not in a try), the cleanup of PVCs and custom resources (in a
\* try).
uninstall_monitoring_stack(call) ==
    [result |-> IF call.release = "raised" THEN "raised" ELSE "true",
     namespace_deleted |-> FALSE]

\* installer.py lines 615-676: delete_namespaced_custom_object (only
\* ApiException is caught), then, in one try, the PVCs and delete_namespace.
uninstall_jellyfin_stack(call) ==
    IF call.gitops = "raised"
    THEN [result |-> "raised", namespace_deleted |-> FALSE]
    ELSE [result |-> "true",
          namespace_deleted |-> (call.cleanup = "ok" /\ call.namespace = "ok")]

\* installer.py lines 678-729.
uninstall_component(component, call) ==
    IF ~can_uninstall_component(component)
    THEN [result |-> "raised", namespace_deleted |-> FALSE]
    ELSE IF component = "monitoring" THEN uninstall_monitoring_stack(call)
    ELSE IF component = "jellyfin" THEN uninstall_jellyfin_stack(call)
    ELSE [result |-> IF call.release = "raised" THEN "raised" ELSE "true",
          namespace_deleted |-> FALSE]

\* The runs of uninstall_component for a component.
UninstallCalls(component) ==
    IF ~can_uninstall_component(component)
    THEN { UninstallCall(Skipped, Skipped, Skipped, Skipped) }
    ELSE IF component = "monitoring"
    THEN { UninstallCall(g, r, c, Skipped) :
              g \in {"ok", "failed", "raised"}, r \in {"ok", "failed", "raised"},
              c \in {"ok", "raised"} }
    ELSE IF component = "jellyfin"
    THEN { UninstallCall(g, Skipped, c, n) :
              g \in {"ok", "not_found", "failed", "raised"}, c \in {"ok", "raised"},
              n \in {"ok", "not_found", "failed"} }
    ELSE { UninstallCall(g, r, Skipped, Skipped) :
              g \in {"ok", "failed", "raised"}, r \in {"ok", "failed", "raised"} }

\* The external calls of one run of restart_component: the Deployments found,
\* their patches, and the StatefulSets listed and patched.
RestartCall(deployments, patches, statefulsets) ==
    [deployments |-> deployments, patches |-> patches, statefulsets |-> statefulsets]

\* restart_component that tests for Deployments in every branch.
restart_component_AlwaysTests(component, call) ==
    [result |-> IF ~get_app_config(component).found THEN "raised"
                ELSE IF call.deployments = "raised" THEN "raised"
                ELSE IF call.deployments = "none" THEN "false"
                ELSE IF call.statefulsets = "raised" THEN "raised"
                ELSE "true"]

\* installer.py lines 731-925: list_namespaced_deployment, a patch per
\* Deployment (each in a try), list_namespaced_stateful_set, a patch per
\* StatefulSet (each in a try).
restart_component(component, call) ==
    [result |-> IF ~get_app_config(component).found THEN "raised"
                ELSE IF call.deployments = "raised" THEN "raised"
                ELSE IF call.deployments = "none" /\ component \in {"monitoring", "jellyfin"}
                THEN "false"
                ELSE IF call.statefulsets = "raised" THEN "raised"
                ELSE "true"]

\* The runs of restart_component.
RestartCalls ==
    { RestartCall(d, p, s) :
         d \in {"none", "some", "raised"}, p \in {"ok", "failed"}, s \in {"ok", "raised"} }

\* No run of the deployer: the step makes no external call.
NoCall == [namespace |-> Skipped]

\* What the deployer leaves in the log when a run ends: which calls it made,
\* how they ended, and what it gave back.
DeployerReport(kind, component, call, outcome) ==
    Response("deployer", component, 0, None, Absent, None)
        @@ [kind |-> kind, call |-> call, outcome |-> outcome]

----------------------------------------------------------------------------
(* Background wrappers *)

Resolved(t) == t.dep \in {"true", "false", "raised"}

\* The body of the sampling loop of install_component_with_status
\* (lines 207-233 and 283-309).
SampleInstall(table, component, probe) ==
    IF Failed(probe) THEN table
    ELSE IF probe.total > 0
    THEN WriteProgress(table, component,
                       Max(PodProgress(probe.running_pods, ExpectedPods(component)),
                           table[component].progress),
                       IF probe.running_pods = 0 THEN "pods created"
                       ELSE IF probe.running_pods < probe.total THEN "pods ready"
                       ELSE "almost ready")
    ELSE WriteProgress(table, component, 15, "Creating namespace and resources")

\* EnoughReady with half of the expected pods as the threshold.
EnoughReady_Half(ready, expected) == ready * 2 >= expected

\* len(running_pods) >= expected_pods * 0.75
EnoughReady(ready, expected) == ready * 4 >= expected * 3

\* The final pod check after the deployer returned True (lines 242-267, 318-343).
FinalInstallCheck(table, component, probe) ==
    IF Failed(probe)
    THEN Write(table, component, "completed", 100, "installation completed")
    ELSE IF probe.total > 0
    THEN IF EnoughReady(probe.running_pods, ExpectedPods(component))
         THEN Write(table, component, "completed", 100, "installed successfully")
         ELSE Write(table, component, "installing", 90, "Installation complete, waiting")
    ELSE Write(table, component, "error", 0, "Installation completed but no pods found")

\* Failure_ that leaves the stored progress as it is.
Failure_KeepsProgress(table, component, message) ==
    Store(table, component,
          [table[component] EXCEPT !.status = "error", !.message = message])

\* Failure_ of a wrapper without its except clause: nothing is stored.
Failure_Propagates(table, component, message) == table

\* What a wrapper stores once the deployer's result is known.
Failure_(table, component, message) == Write(table, component, "error", 0, message)

\* install_component_with_status up to its first await.
InstallStart(t, probe) ==
    /\ resp = NoResponse
    /\ t \in tasks /\ t.kind = "install" /\ t.pc = "scheduled"
    /\ IF t.component \in PodTracked
       THEN /\ probe \in PodProbes(t.component)
            /\ installation_status' =
                  SampleInstall(Write(installation_status, t.component, "installing", 10,
                                      "Installing"),
                                t.component, probe)
            /\ tasks' = (tasks \ {t}) \cup {[t EXCEPT !.pc = "sleeping", !.dep = "running"]}
       ELSE /\ probe = NoProbe
            /\ installation_status' =
                  Write(installation_status, t.component, "installing", 20, "preparing")
            /\ tasks' = (tasks \ {t}) \cup {[t EXCEPT !.pc = "steps", !.step = 1]}
    /\ resp' = NoResponse
    /\ UNCHANGED <<accepted, run>>

\* The install task started with create_task comes to its end.
InstallDeployerDone(t, call) ==
    /\ resp = NoResponse
    /\ t \in tasks /\ t.kind = "install" /\ t.component \in PodTracked
    /\ t.pc = "sleeping" /\ t.dep = "running"
    /\ call \in InstallCalls(t.component)
    /\ LET outcome == install_component(t.component, call) IN
       /\ tasks' = (tasks \ {t}) \cup {[t EXCEPT !.dep = outcome.result]}
       /\ resp' = DeployerReport("install", t.component, call, outcome)
    /\ UNCHANGED <<installation_status, accepted, run>>

\* InstallSample whose loop keeps sampling after the install task is done.
InstallSample_AfterDone(t, probe) ==
    /\ resp = NoResponse
    /\ t \in tasks /\ t.kind = "install" /\ t.component \in PodTracked
    /\ t.pc = "sleeping"
    /\ probe \in PodProbes(t.component)
    /\ installation_status' = SampleInstall(installation_status, t.component, probe)
    /\ resp' = NoResponse
    /\ UNCHANGED <<tasks, accepted, run>>

\* The wrapper wakes from asyncio.sleep(3) and the install task is not done.
InstallSample(t, probe) ==
    /\ resp = NoResponse
    /\ t \in tasks /\ t.kind = "install" /\ t.component \in PodTracked
    /\ t.pc = "sleeping" /\ t.dep = "running"
    /\ DeployerSuspends(t.kind, t.component)
    /\ probe \in PodProbes(t.component)
    /\ installation_status' = SampleInstall(installation_status, t.component, probe)
    /\ resp' = NoResponse
    /\ UNCHANGED <<tasks, accepted, run>>

\* The wrapper wakes and the install task is done: result, final check, end.
InstallFinal(t, probe) ==
    /\ resp = NoResponse
    /\ t \in tasks /\ t.kind = "install" /\ t.component \in PodTracked
    /\ t.pc = "sleeping" /\ Resolved(t)
    /\ IF t.dep = "true"
       THEN /\ probe \in PodProbes(t.component)
            /\ installation_status' = FinalInstallCheck(installation_status, t.component, probe)
       ELSE /\ probe = NoProbe
            /\ installation_status' =
                  Failure_(installation_status, t.component,
                           IF t.dep = "false" THEN "Failed to install"
                           ELSE "Installation failed")
    /\ tasks' = tasks \ {t}
    /\ resp' = NoResponse
    /\ UNCHANGED <<accepted, run>>

\* int((i + 1) / len(steps) * 100) for i = step
StepProgress(step) == ((step + 1) * 100) \div 5

\* One simulated step of the generic branch (lines 351-363); after the last
\* one install_component runs up to its first sleep.
InstallStep(t, call) ==
    /\ resp = NoResponse
    /\ t \in tasks /\ t.kind = "install" /\ t.pc = "steps"
    /\ IF t.step < 4
       THEN /\ call = NoCall
            /\ installation_status' =
                  WriteProgress(installation_status, t.component, StepProgress(t.step), "step")
            /\ tasks' = (tasks \ {t}) \cup {[t EXCEPT !.step = t.step + 1]}
            /\ resp' = NoResponse
       ELSE /\ call \in InstallCalls(t.component)
            /\ LET outcome == install_component(t.component, call) IN
               IF outcome.result = "raised"
               THEN /\ installation_status' =
                          Failure_(installation_status, t.component, "Installation failed")
                    /\ tasks' = tasks \ {t}
                    /\ resp' = DeployerReport("install", t.component, call, outcome)
               ELSE /\ installation_status' =
                          WriteProgress(installation_status, t.component,
                                        StepProgress(t.step), "completed")
                    /\ tasks' = (tasks \ {t}) \cup
                          {[t EXCEPT !.pc = "awaiting", !.dep = "running"]}
                    /\ resp' = DeployerReport("install", t.component, call,
                                              [outcome EXCEPT !.result = "running"])
    /\ UNCHANGED <<accepted, run>>

\* install_component of the generic branch returns (lines 365-372).
InstallGenericFinish(t, outcome) ==
    /\ resp = NoResponse
    /\ t \in tasks /\ t.kind = "install" /\ t.pc = "awaiting"
    /\ outcome \in InstallOutcomes(t.component)
    /\ installation_status' =
          IF outcome = "true"
          THEN Write(installation_status, t.component, "completed", 100,
                     "installed successfully")
          ELSE Failure_(installation_status, t.component, "Failed to install")
    /\ tasks' = tasks \ {t}
    /\ resp' = NoResponse
    /\ UNCHANGED <<accepted, run>>

\* uninstall_component_with_status up to the first await of uninstall_component,
\* which raises at once for a protected component (installer.py line 684).
UninstallStart(t) ==
    /\ resp = NoResponse
    /\ t \in tasks /\ t.kind = "uninstall" /\ t.pc = "scheduled"
    /\ IF can_uninstall_component(t.component)
       THEN /\ installation_status' =
                  Write(installation_status, t.component, "uninstalling", 10, "Uninstalling")
            /\ tasks' = (tasks \ {t}) \cup {[t EXCEPT !.pc = "awaiting", !.dep = "running"]}
       ELSE /\ installation_status' =
                  Failure_(installation_status, t.component, "Uninstallation failed")
            /\ tasks' = tasks \ {t}
    /\ resp' = NoResponse
    /\ UNCHANGED <<accepted, run>>

\* uninstall_component returns or raises (lines 393-407).
UninstallFinish(t, call) ==
    /\ resp = NoResponse
    /\ t \in tasks /\ t.kind = "uninstall" /\ t.pc = "awaiting"
    /\ call \in UninstallCalls(t.component)
    /\ LET outcome == uninstall_component(t.component, call) IN
       /\ installation_status' =
             IF outcome.result = "true"
             THEN Write(installation_status, t.component, "not_installed", 100,
                        "uninstalled successfully")
             ELSE Failure_(installation_status, t.component,
                           IF outcome.result = "false" THEN "Failed to uninstall"
                           ELSE "Uninstallation failed")
       /\ resp' = DeployerReport("uninstall", t.component, call, outcome)
    /\ tasks' = tasks \ {t}
    /\ UNCHANGED <<accepted, run>>

\* expected_pods = len(initial_pods.items) if initial_pods.items else 8
RestartExpected(initial) == IF initial > 0 THEN initial ELSE 8

\* The final verification of a monitoring restart (lines 500-532).
FinalRestartCheck(table, component, probe, expected) ==
    IF Failed(probe)
    THEN Write(table, component, "completed", 100, "Restart completed")
    ELSE IF probe.total > 0
    THEN IF EnoughReady(probe.running_pods, expected)
         THEN Write(table, component, "completed", 100, "Restart completed successfully")
         ELSE Write(table, component, "restarting", 95, "Restart complete, finalizing")
    ELSE Write(table, component, "error", 0, "Restart completed but no pods found")

\* max_wait_time of the monitoring loop of a restart, and its step.
max_wait_time == 180
RestartLoopStep == 3

\* RestartLoopRuns without the limit on wait_time.
RestartLoopRuns_NoLimit(done, wait_time) == ~done

\* while not restart_task.done() and wait_time < max_wait_time (line 447)
RestartLoopRuns(done, wait_time) == ~done /\ wait_time < max_wait_time

\* The body of the monitoring loop of a restart (lines 448-490): what one
\* sample of the pods writes.  `changed` says that the sample shows a pod with
\* a uid that was not there before the restart.
SampleRestart(table, component, probe, started, expected) ==
    IF Failed(probe) THEN table
    ELSE IF probe.total > 0
    THEN IF started
         THEN WriteProgress(table, component,
                            Max(25 + Min((probe.running_pods * 65) \div expected, 65),
                                table[component].progress),
                            IF probe.running_pods = 0 THEN "pods recreated"
                            ELSE IF probe.running_pods < expected THEN "pods ready"
                            ELSE "almost complete")
         ELSE WriteProgress(table, component, 20, "Waiting for pod restart to begin")
    ELSE WriteProgress(table, component, 25, "Pods being recreated")

\* The wrapper wakes and the restart task is not done: one iteration of the
\* monitoring loop.  The first one comes after the write of progress 20 that
\* follows asyncio.sleep(2) (lines 438-440).
RestartSample(t, probe, changed) ==
    /\ resp = NoResponse
    /\ t \in tasks /\ t.kind = "restart" /\ t.component = "monitoring"
    /\ t.pc = "sleeping"
    /\ RestartLoopRuns(Resolved(t), t.wait)
    /\ probe \in PodProbes(t.component)
    /\ LET started == \/ t.restart_started
                       \/ (~Failed(probe) /\ probe.total > 0
                           /\ (changed \/ probe.total < t.initial))
           table == IF t.wait = 0
                    THEN WriteProgress(installation_status, t.component, 20,
                                       "Rollout restart triggered")
                    ELSE installation_status
       IN  /\ installation_status' =
                 SampleRestart(table, t.component, probe, started, RestartExpected(t.initial))
           /\ tasks' = (tasks \ {t}) \cup
                 {[t EXCEPT !.wait = t.wait + RestartLoopStep, !.restart_started = started]}
    /\ resp' = NoResponse
    /\ UNCHANGED <<accepted, run>>

\* restart_component_with_status up to its first await.
RestartStart(t, probe) ==
    /\ resp = NoResponse
    /\ t \in tasks /\ t.kind = "restart" /\ t.pc = "scheduled"
    /\ IF t.component = "monitoring"
       THEN /\ probe \in PodProbes(t.component)
            /\ installation_status' =
                  Write(installation_status, t.component, "restarting", 15,
                        "Triggering rollout restart")
            /\ tasks' = (tasks \ {t}) \cup
                  {[t EXCEPT !.pc = "sleeping", !.dep = "running",
                             !.initial = IF Failed(probe) THEN 0 ELSE probe.total]}
       ELSE /\ probe = NoProbe
            /\ installation_status' =
                  Write(installation_status, t.component, "restarting", 20,
                        "triggering restart")
            /\ tasks' = (tasks \ {t}) \cup {[t EXCEPT !.pc = "steps", !.step = 1]}
    /\ resp' = NoResponse
    /\ UNCHANGED <<accepted, run>>

\* The restart task started with create_task runs, in one step, to its end.
RestartDeployerDone(t, call) ==
    /\ resp = NoResponse
    /\ t \in tasks /\ t.kind = "restart" /\ t.component = "monitoring"
    /\ t.pc = "sleeping" /\ t.dep = "running"
    /\ call \in RestartCalls
    /\ LET outcome == restart_component(t.component, call) IN
       /\ tasks' = (tasks \ {t}) \cup {[t EXCEPT !.dep = outcome.result]}
       /\ resp' = DeployerReport("restart", t.component, call, outcome)
    /\ UNCHANGED <<installation_status, accepted, run>>

\* The wrapper wakes from asyncio.sleep(2).  restart_component does not suspend,
\* so restart_task.done() holds at the first test of the monitoring loop
\* (line 447) and the wrapper goes straight to the result and the final check.
RestartFinal(t, probe) ==
    /\ resp = NoResponse
    /\ t \in tasks /\ t.kind = "restart" /\ t.component = "monitoring"
    /\ t.pc = "sleeping"
    /\ Resolved(t)
    /\ IF t.dep = "true"
       THEN /\ probe \in PodProbes(t.component)
            /\ installation_status' =
                  FinalRestartCheck(installation_status, t.component, probe,
                                    RestartExpected(t.initial))
       ELSE /\ probe = NoProbe
            /\ installation_status' =
                  Failure_(installation_status, t.component,
                           IF t.dep = "false" THEN "Failed to restart" ELSE "Restart failed")
    /\ tasks' = tasks \ {t}
    /\ resp' = NoResponse
    /\ UNCHANGED <<accepted, run>>

\* int(20 + (i / len(steps)) * 80) for i = step
RestartStepProgress(step) == 20 + (step * 80) \div 4

\* One simulated step of the other components' restart (lines 534-555); after
\* the last one restart_component runs to its end.
RestartStep(t, call) ==
    /\ resp = NoResponse
    /\ t \in tasks /\ t.kind = "restart" /\ t.pc = "steps"
    /\ IF t.step < 3
       THEN /\ call = NoCall
            /\ installation_status' =
                  WriteProgress(installation_status, t.component,
                                RestartStepProgress(t.step), "step")
            /\ tasks' = (tasks \ {t}) \cup {[t EXCEPT !.step = t.step + 1]}
            /\ resp' = NoResponse
       ELSE /\ call \in RestartCalls
            /\ LET outcome == restart_component(t.component, call) IN
               /\ installation_status' =
                     IF outcome.result = "true"
                     THEN Write(installation_status, t.component, "completed", 100,
                                "restarted successfully")
                     ELSE Failure_(installation_status, t.component,
                                   IF outcome.result = "false" THEN "Failed to restart"
                                   ELSE "Restart failed")
               /\ resp' = DeployerReport("restart", t.component, call, outcome)
            /\ tasks' = tasks \ {t}
    /\ UNCHANGED <<accepted, run>>

----------------------------------------------------------------------------
(* The system *)

\* A run addresses one component: it either accepts up to MaxOps operations
\* while the cluster shows few pods, or accepts one operation while the cluster
\* shows every number of pods up to MostPods.  One more run addresses two
\* components, a pod-tracked one and another, while no pod is ready.  In the
\* last run, of one operation on monitoring with few pods, the monitoring loop
\* of a restart is followed through all of its iterations (`loop`).
Scenarios ==
    { [ids |-> {c}, ops |-> MaxOps, pods |-> MaxFewPods, loop |-> FALSE] :
         c \in ComponentIds }
    \cup { [ids |-> {c}, ops |-> 1, pods |-> MostPods(c), loop |-> FALSE] :
            c \in PodTracked }
    \cup { [ids |-> {"sonarr", "jellyfin"}, ops |-> MaxOps, pods |-> 0, loop |-> FALSE] }
    \cup { [ids |-> {"monitoring"}, ops |-> 1, pods |-> MaxFewPods, loop |-> TRUE] }

Init ==
    /\ installation_status = << >>
    /\ tasks = {}
    /\ accepted = << >>
    /\ resp = NoResponse
    /\ run \in Scenarios

\* The response of the last handler leaves for its client.
Deliver ==
    /\ resp # NoResponse
    /\ resp' = NoResponse
    /\ UNCHANGED <<installation_status, tasks, accepted, run>>

Outcomes == {"true", "false", "raised"}

\* The runs of the deployer that a step of a wrapper can see.
WrapperCalls(t) ==
    {NoCall} \cup (IF t.kind = "install" THEN InstallCalls(t.component)
                   ELSE IF t.kind = "uninstall" THEN UninstallCalls(t.component)
                   ELSE RestartCalls)

\* What a wrapper's probe of its component's pods can return; NoProbe when the
\* step makes none.
WrapperProbes(t) == PodProbes(t.component) \cup {NoProbe}

\* The wrappers of one kind that are in flight.
Wrappers(kind) == {t \in tasks : t.kind = kind}

Next ==
    \/ \E c \in run.ids : install_app(c)
    \/ \E c \in run.ids : uninstall_app(c)
    \/ resp = NoResponse /\ \E c \in run.ids : \E probe \in RestartProbes(c) : restart_app(c, probe)
    \/ resp = NoResponse /\ \E c \in run.ids : \E probe \in StatusProbes(c) : get_install_status(c, probe)
    \/ get_all_install_status
    \/ Deliver
    \/ resp = NoResponse /\ \E t \in Wrappers("install") : \E probe \in WrapperProbes(t) : InstallStart(t, probe)
    \/ resp = NoResponse /\ \E t \in Wrappers("install") : t.pc = "sleeping" /\ \E call \in WrapperCalls(t) : InstallDeployerDone(t, call)
    \/ resp = NoResponse /\ \E t \in Wrappers("install") : \E probe \in WrapperProbes(t) : InstallSample(t, probe)
    \/ resp = NoResponse /\ \E t \in Wrappers("install") : \E probe \in WrapperProbes(t) : InstallFinal(t, probe)
    \/ resp = NoResponse /\ \E t \in Wrappers("install") : t.pc = "steps" /\ \E call \in WrapperCalls(t) : InstallStep(t, call)
    \/ \E t \in Wrappers("install"), outcome \in Outcomes : InstallGenericFinish(t, outcome)
    \/ \E t \in Wrappers("uninstall") : UninstallStart(t)
    \/ resp = NoResponse /\ \E t \in Wrappers("uninstall") : t.pc = "awaiting" /\ \E call \in WrapperCalls(t) : UninstallFinish(t, call)
    \/ resp = NoResponse /\ \E t \in Wrappers("restart") : \E probe \in WrapperProbes(t) : RestartStart(t, probe)
    \/ resp = NoResponse /\ \E t \in Wrappers("restart") : t.pc = "sleeping" /\ \E call \in WrapperCalls(t) : RestartDeployerDone(t, call)
    \/ resp = NoResponse /\ \E t \in Wrappers("restart") : \E probe \in WrapperProbes(t) : RestartFinal(t, probe)
    \/ resp = NoResponse /\ \E t \in Wrappers("restart") : t.pc = "steps" /\ \E call \in WrapperCalls(t) : RestartStep(t, call)

Spec == Init /\ [][Next]_vars

\* The same system with clients that poll the status back to back.
NextPoll ==
    \/ Next
    \/ resp.op = "status" /\ \E c \in run.ids : \E probe \in StatusProbes(c) : poll_again(c, probe)

SpecPoll == Init /\ [][NextPoll]_vars

\* The same system with a restart_component that can suspend, as it does with
\* a cluster client that awaits its calls: the wrapper of a monitoring restart
\* can then wake while the restart task is not done.
NextRestartLoop ==
    \/ Next
    \/ resp = NoResponse /\ run.loop /\ \E t \in Wrappers("restart") : t.pc = "sleeping" /\ \E probe \in PodProbes(t.component) : \E changed \in BOOLEAN : RestartSample(t, probe, changed)

SpecRestartLoop == Init /\ [][NextRestartLoop]_vars

----------------------------------------------------------------------------
(* Properties *)

StartOps == {"install", "uninstall", "restart"}

\* The registry marks the component protected, or has no entry for it.
NotUninstallable(component) ==
    \/ component \notin DOMAIN APP_REGISTRY
    \/ ~APP_REGISTRY[component].can_uninstall

\* C1: for each component at most one background wrapper (install, uninstall
\* or restart) is scheduled or running at any time.
C1_AtMostOneTask ==
    \A c \in ComponentIds : Cardinality(TasksOf(c)) <= 1

\* C2: a start request of any kind that finds the stored status installing,
\* uninstalling or restarting is not accepted: when it is answered at all
\* (HTTP 200) the answer is already_installing or already_processing.
C2_BusyStartRejected ==
    (/\ resp.op \in StartOps
     /\ resp.http = 200
     /\ resp.stored \in {"installing", "uninstalling", "restarting"})
    => resp.status \in {"already_installing", "already_processing"}

\* C3: while the stored status of a component is installing, no install,
\* uninstall or restart request for it starts an operation: the entry and the
\* set of tasks stay as they were, and an install request is answered
\* already_installing.
C3_InstallingBlocksStarts ==
    [][\A c \in ComponentIds :
          (/\ StoredStatus(c) = "installing"
           /\ resp = NoResponse
           /\ resp'.op \in StartOps
           /\ resp'.component = c)
          => /\ installation_status' = installation_status
             /\ tasks' = tasks
             /\ resp'.status # "started"
             /\ (resp'.op = "install" => resp'.status = "already_installing")]_vars

C3_Witness ==
    /\ resp.op = "uninstall"
    /\ resp.status = "already_processing"
    /\ resp.stored = "installing"
    /\ \E t \in tasks : t.kind = "install" /\ t.pc = "sleeping"

\* C4 as stated: once an install has been accepted for a component, the next
\* install request for it, with no other operation accepted in between, is
\* answered already_installing, so that no install is accepted right after an
\* accepted install.
C4_SecondInstallAlwaysRejected ==
    ~(/\ resp.op = "install"
      /\ resp.status = "started"
      /\ Len(accepted) >= 2
      /\ accepted[Len(accepted) - 1] = [op |-> "install", component |-> resp.component])

\* C4 as amended: an install request that arrives while the stored status left
\* by an accepted install is still installing - before that install's wrapper
\* has begun to run, or while it runs - is answered already_installing,
\* accepts no operation and schedules no wrapper.
C4_SecondInstallWhileInstalling ==
    [][\A c \in ComponentIds :
          (/\ resp = NoResponse
           /\ resp'.op = "install"
           /\ resp'.component = c
           /\ StoredStatus(c) = "installing"
           /\ Len(accepted) >= 1
           /\ accepted[Len(accepted)] = [op |-> "install", component |-> c])
          => /\ resp'.status = "already_installing"
             /\ accepted' = accepted
             /\ {t \in tasks' : t.pc = "scheduled"} = {t \in tasks : t.pc = "scheduled"}
             /\ {t \in tasks' : t.dep # "idle"} = {t \in tasks : t.dep # "idle"}]_vars

C4_Witness ==
    /\ resp.op = "install"
    /\ resp.status = "already_installing"
    /\ Len(accepted) = 1
    /\ \E t \in tasks : t.kind = "install" /\ t.pc = "scheduled"

\* C5 as stated: a request for an id without a registry entry is answered
\* not-found.
C5_UnregisteredNotFound ==
    (resp.op # "none" /\ resp.component \notin DOMAIN APP_REGISTRY) => resp.http = 404

\* C5 as amended: for every id outside VALID_COMPONENTS each of install,
\* uninstall, restart and status is answered not-found (404); the id never has
\* an entry in the status table and never a background wrapper.
C5_InvalidNotFound ==
    \A c \in ComponentIds \ VALID_COMPONENTS :
        /\ ~HasEntry(c)
        /\ TasksOf(c) = {}
        /\ (resp.op # "none" /\ resp.component = c) => resp.http = 404

C5_Witness ==
    /\ resp.op = "restart"
    /\ resp.component \notin VALID_COMPONENTS
    /\ resp.http = 404

\* C6: while the stored status stays installing, of two status reads that
\* follow each other the second reports at least the progress of the first.
C6_ReadsNeverRegress ==
    [][(/\ resp.op = "status" /\ resp'.op = "status"
        /\ resp.component = resp'.component
        /\ resp.stored = "installing" /\ resp'.stored = "installing"
        /\ resp.status = "installing" /\ resp'.status = "installing")
       => resp'.progress >= resp.progress]_vars

\* C7: a status read of a pod-tracked component that finds the stored status
\* completed and whose probe reports fewer ready pods than the completion
\* threshold (6 of 8 for monitoring, 1 for jellyfin), zero pods included,
\* answers installing.
C7_CompletedDowngraded ==
    (/\ resp.op = "status"
     /\ resp.component \in PodTracked
     /\ resp.stored = "completed"
     /\ resp.probe.fail = "ok"
     /\ resp.probe.running_pods < (IF resp.component = "monitoring" THEN 6 ELSE 1))
    => resp.status = "installing"

\* C8 as stated: an uninstall request for an id that the registry marks
\* protected or does not know is answered with the Protected error (403).
C8_UninstallAlwaysProtected ==
    (resp.op = "uninstall" /\ NotUninstallable(resp.component)) => resp.http = 403

\* C8 as amended: an uninstall request for a valid component that the
\* registry marks protected or does not know is answered with the Protected
\* error (403) whatever the stored status, changes neither the status table nor
\* the tasks, and no uninstall wrapper (hence no deployer uninstall) ever
\* exists for it; an id outside VALID_COMPONENTS is answered not-found instead.
C8_ProtectedUninstallRefused ==
    [][\A c \in ComponentIds :
          /\ (/\ NotUninstallable(c)
              /\ resp = NoResponse
              /\ resp'.op = "uninstall"
              /\ resp'.component = c)
             => /\ resp'.http = (IF c \in VALID_COMPONENTS THEN 403 ELSE 404)
                /\ installation_status' = installation_status
                /\ tasks' = tasks
                /\ accepted' = accepted
          /\ NotUninstallable(c)
             => \A t \in tasks' : ~(t.component = c /\ t.kind = "uninstall")]_vars

C8_Witness ==
    /\ resp.op = "uninstall"
    /\ resp.component = "argocd"
    /\ resp.http = 403
    /\ resp.stored = "completed"

\* C9: a restart request for a protected component is refused (403) before
\* the pods are probed and whatever the stored status is, and the stored
\* status of a protected component is never uninstalling or restarting.
C9_ProtectedNeverRestarts ==
    \A c \in VALID_COMPONENTS :
        NotUninstallable(c)
        => /\ StoredStatus(c) \notin {"uninstalling", "restarting"}
           /\ (resp.op = "restart" /\ resp.component = c)
              => (resp.http = 403 /\ resp.probe = NoProbe)

C9_Witness ==
    /\ resp.op = "restart"
    /\ resp.component = "argocd"
    /\ resp.stored = "installing"
    /\ resp.http = 403

\* C10: a restart request whose probe does not show at least one pod in phase
\* Running (no pods, only pods in other phases, namespace not found, probe
\* failed) is refused and leaves the status table, the tasks and the accepted
\* operations as they were; an accepted restart has seen a Running pod.
C10_RestartNeedsRunningPod ==
    [][\A c \in ComponentIds :
          (/\ resp = NoResponse
           /\ resp'.op = "restart"
           /\ resp'.component = c
           /\ ~(resp'.probe.fail = "ok" /\ resp'.probe.running_pods >= 1))
          => /\ resp'.status # "started"
             /\ resp'.http # 200
             /\ installation_status' = installation_status
             /\ tasks' = tasks
             /\ accepted' = accepted]_vars

C10_Witness ==
    /\ resp.op = "restart"
    /\ resp.http = 400
    /\ resp.probe.fail = "ok"
    /\ resp.probe.total >= 1
    /\ resp.probe.running_pods = 0

\* The wrapper t ends in this step.
Ends(t) == \A u \in tasks' : u.op # t.op

\* C11: when the deployer's install call returns false or raises, the wrapper
\* ends with the stored status error and progress 0; and an install request
\* that finds the stored status error is accepted: it answers started, stores
\* installing with progress 0 and schedules a new install wrapper.
C11_InstallFailureAllowsRetry ==
    [][/\ \A t \in tasks :
            (/\ t.kind = "install"
             /\ Ends(t)
             /\ (t.dep \in {"false", "raised"} \/ t.pc = "steps"))
            => /\ installation_status'[t.component].status = "error"
               /\ installation_status'[t.component].progress = 0
       /\ \A c \in ComponentIds :
            (/\ StoredStatus(c) = "error"
             /\ resp = NoResponse
             /\ resp'.op = "install"
             /\ resp'.component = c)
            => /\ resp'.status = "started"
               /\ installation_status'[c].status = "installing"
               /\ installation_status'[c].progress = 0
               /\ \E u \in tasks' \ tasks :
                     u.kind = "install" /\ u.component = c /\ u.pc = "scheduled"]_vars

C11_Witness ==
    /\ resp.op = "install"
    /\ resp.status = "started"
    /\ resp.stored = "error"
    /\ Len(accepted) = 2
    /\ accepted[1].op = "install"

\* C12: once an install of a pod-tracked component was accepted, its deployer
\* call returned true and its wrapper has ended, a status read whose probe
\* finds all the expected pods ready answers completed with progress 100.
C12_ReadyPodsReadCompleted ==
    \A c \in PodTracked :
        (/\ resp.op = "status"
         /\ resp.component = c
         /\ TasksOf(c) = {}
         /\ Len(accepted) = 1
         /\ accepted[1] = [op |-> "install", component |-> c]
         /\ installation_status[c].message
               \in {"installed successfully", "installation completed",
                    "Installation complete, waiting",
                    "Installation completed but no pods found"}
         /\ resp.probe.fail = "ok"
         /\ resp.probe.running_pods >= ExpectedPods(c))
        => (resp.status = "completed" /\ resp.progress = 100)

\* C13: a status read that reports installing while an install wrapper of the
\* component has a deployer call that has not resolved reports progress < 100.
C13_InstallingBelow100 ==
    (/\ resp.op = "status"
     /\ resp.status = "installing"
     /\ \E t \in TasksOf(resp.component) : t.kind = "install" /\ ~Resolved(t))
    => resp.progress < 100

\* C14: a status read of a valid component always answers a well-formed
\* object - HTTP 200 with a status, a progress in 0..100 and a message -
\* whatever is stored and whatever the probe does.
C14_ReadWellFormed ==
    (resp.op = "status" /\ resp.component \in VALID_COMPONENTS)
    => /\ resp.http = 200
       /\ resp.status \in {"installing", "completed", "uninstalling", "restarting",
                           "error", "not_installed", "installed"}
       /\ resp.progress \in 0..100
       /\ resp.message # None

C14_Witness ==
    /\ resp.op = "status"
    /\ resp.component \in VALID_COMPONENTS \ PodTracked
    /\ resp.probe.fail \in FailureKinds
    /\ resp.stored = "completed"
    /\ resp.http = 200

\* C15: a status read whose probe fails while the component has a stored
\* entry answers with the status, progress and message of that entry.
C15_ProbeFailureFallsBack ==
    (/\ resp.op = "status"
     /\ resp.stored # None
     /\ resp.probe.fail \in FailureKinds)
    => /\ resp.status = installation_status[resp.component].status
       /\ resp.progress = installation_status[resp.component].progress
       /\ resp.message = installation_status[resp.component].message

\* C16 as stated: a status read of a valid component without an entry answers
\* installed or not_installed, never another status.
C16_NoEntryTwoAnswers ==
    (/\ resp.op = "status"
     /\ resp.component \in VALID_COMPONENTS
     /\ resp.stored = None)
    => resp.status \in {"installed", "not_installed"}

\* C16 as amended: a status read of a valid component without an entry creates
\* no entry and answers installed/100 when the direct check finds the
\* component (at least 3 ready pods for monitoring, 1 for jellyfin, the
\* namespace listed for the others), not_installed/0 when the check does not
\* find it or, for monitoring and jellyfin, fails, and error/0 when the
\* namespace listing of another component fails.
C16_NoEntryRead ==
    [][\A c \in VALID_COMPONENTS :
          (/\ ~HasEntry(c)
           /\ resp = NoResponse
           /\ resp'.op = "status"
           /\ resp'.component = c)
          => /\ installation_status' = installation_status
             /\ tasks' = tasks
             /\ LET probe == resp'.probe
                    found == IF c = "monitoring"
                                THEN probe.total > 0 /\ probe.running_pods >= 3
                             ELSE IF c = "jellyfin"
                                THEN probe.total > 0 /\ probe.running_pods >= 1
                             ELSE probe.ns = "present"
                    answer == <<resp'.status, resp'.progress>>
                IN  IF probe.fail \in FailureKinds
                    THEN answer = (IF c \in {"monitoring", "jellyfin"}
                                   THEN <<"not_installed", 0>> ELSE <<"error", 0>>)
                    ELSE IF found THEN answer = <<"installed", 100>>
                    ELSE answer = <<"not_installed", 0>>]_vars

C16_Witness ==
    /\ resp.op = "status"
    /\ resp.component = "monitoring"
    /\ resp.stored = None
    /\ resp.probe.running_pods = 3
    /\ resp.status = "installed"

\* C17: within one operation (same started_at), with one wrapper in flight,
\* the stored progress stays in 0..100 and never decreases from one write to
\* the next unless the write sets the status error.
C17_ProgressNeverDecreases ==
    [][\A c \in ComponentIds :
          (/\ HasEntry(c)
           /\ Cardinality(TasksOf(c)) <= 1
           /\ installation_status'[c].started_at = installation_status[c].started_at
           /\ installation_status'[c].status # "error")
          => /\ installation_status'[c].progress \in 0..100
             /\ installation_status'[c].progress >= installation_status[c].progress]_vars

C19_LifecycleEdgesOnly ==
    [][\A c \in ComponentIds :
          LET before == StoredStatus(c)
              after == IF c \in DOMAIN installation_status'
                       THEN installation_status'[c].status ELSE None
          IN  before # after
              => <<before, after>>
                    \in {<<None, "installing">>, <<"not_installed", "installing">>,
                         <<"error", "installing">>,
                         <<"installing", "completed">>, <<"installing", "error">>,
                         <<"completed", "uninstalling">>,
                         <<"uninstalling", "not_installed">>, <<"uninstalling", "error">>,
                         <<"completed", "restarting">>,
                         <<"restarting", "completed">>, <<"restarting", "error">>}]_vars

\* C19 as amended: a start request changes the stored status only when it is
\* accepted; an accepted install finds any stored status but installing, an
\* accepted uninstall or restart finds no entry, completed, error or
\* not_installed (not only completed) and never installing, uninstalling or
\* restarting; and a wrapper that changes the stored status sets a status of
\* its own operation: installing, completed or error for install;
\* uninstalling, not_installed or error for uninstall; restarting, completed
\* or error for restart.
C19_StatusEdges ==
    [][\A c \in ComponentIds :
          LET before == StoredStatus(c)
              after == IF c \in DOMAIN installation_status'
                       THEN installation_status'[c].status ELSE None
          IN  /\ (resp = NoResponse /\ resp'.op \in StartOps /\ resp'.component = c)
                 => IF resp'.status = "started"
                    THEN /\ after = (IF resp'.op = "install" THEN "installing"
                                     ELSE IF resp'.op = "uninstall" THEN "uninstalling"
                                     ELSE "restarting")
                         /\ resp'.op = "install" => before # "installing"
                         /\ resp'.op # "install"
                            => before \in {None, "completed", "error", "not_installed"}
                    ELSE after = before
              /\ (resp'.op \in {"none", "deployer"} /\ before # after)
                 => \E t \in tasks \ tasks' :
                       /\ t.component = c
                       /\ after \in (IF t.kind = "install"
                                        THEN {"installing", "completed", "error"}
                                     ELSE IF t.kind = "uninstall"
                                        THEN {"uninstalling", "not_installed", "error"}
                                     ELSE {"restarting", "completed", "error"})]_vars

C19_Witness ==
    /\ resp.op = "uninstall"
    /\ resp.status = "started"
    /\ resp.stored = "error"
    /\ installation_status[resp.component].status = "uninstalling"

\* C20: every stored status is one of installing, completed, uninstalling,
\* restarting, error, not_installed - the response values already_installing,
\* already_processing, started and installed are never stored - and a request
\* answered already_installing or already_processing accepts no operation,
\* schedules no wrapper and leaves the table as it was.
C20_StoredStatusesOnly ==
    [][/\ \A c \in DOMAIN installation_status' :
            installation_status'[c].status
               \in {"installing", "completed", "uninstalling", "restarting",
                    "error", "not_installed"}
       /\ (resp = NoResponse
           /\ resp'.status \in {"already_installing", "already_processing"})
          => /\ accepted' = accepted
             /\ tasks' = tasks
             /\ installation_status' = installation_status]_vars

C20_Witness ==
    /\ resp.op = "restart"
    /\ resp.status = "already_processing"
    /\ resp.stored = "uninstalling"
    /\ installation_status[resp.component].status = "uninstalling"

\* C21: whenever the stored status of a component is installing, uninstalling
\* or restarting, a wrapper of that component is scheduled or running.
C21_InProgressHasTask ==
    \A c \in ComponentIds :
        StoredStatus(c) \in {"installing", "uninstalling", "restarting"}
        => TasksOf(c) # {}

\* C22: whenever a wrapper is in flight, the entry of its component is the one
\* its own operation created and holds the in-progress status of that
\* operation.
C22_TaskOwnsEntry ==
    \A t \in tasks :
        /\ installation_status[t.component].started_at = t.op
        /\ installation_status[t.component].status =
              (IF t.kind = "install" THEN "installing"
               ELSE IF t.kind = "uninstall" THEN "uninstalling"
               ELSE "restarting")

C24_NoSampleAfterResolution ==
    [][\A c \in DOMAIN installation_status :
          (/\ installation_status'[c] # installation_status[c]
           /\ tasks' = tasks
           /\ accepted' = accepted)
          => \E t \in TasksOf(c) :
                t.kind = "install" /\ t.pc = "sleeping" /\ t.dep = "running"]_vars

\* The loop has sampled pods and the install task of monitoring has resolved
\* while its wrapper still sleeps.
C24_Witness ==
    \E t \in tasks :
        /\ t.kind = "install" /\ t.component = "monitoring"
        /\ t.pc = "sleeping" /\ Resolved(t)
        /\ installation_status["monitoring"].progress = PodProgress(1, 8)
        /\ installation_status["monitoring"].message = "pods ready"

\* C25: each accepted start request leads to at most one invocation of the
\* deployer for its component, and once a wrapper has ended in error the
\* deployer is not invoked again for that component, and the stored status
\* stays error, until a new start request is accepted.  A wrapper invokes the
\* deployer in the step in which it leaves dep = "idle".
C25_NoRetryAfterError ==
    [][/\ \A u \in tasks' :
             \/ \E t \in tasks : t.op = u.op /\ (t.dep # "idle" => u.dep # "idle")
             \/ /\ u.op = Len(accepted') /\ Len(accepted') = Len(accepted) + 1
                /\ u.dep = "idle"
       /\ \A c \in DOMAIN installation_status :
             (installation_status[c].status = "error" /\ accepted' = accepted)
             => /\ installation_status'[c].status = "error"
                /\ \A t \in TasksOf(c) : t.dep = "idle" => t \in tasks']_vars

\* C26: in every reachable state the stored status and the stored progress
\* agree: completed and not_installed go with progress 100, error with
\* progress 0.
C26_StatusProgressAgree ==
    \A c \in DOMAIN installation_status :
        LET e == installation_status[c] IN
        /\ e.status \in {"completed", "not_installed"} => e.progress = 100
        /\ e.status = "error" => e.progress = 0

\* C27: a status read, of one component or of all, never modifies the status
\* table: every stored entry is the same before and after the read, no stored
\* entry has a pods_running or total_pods field, and a downgraded status or a
\* refined progress is in the response only.
C27_ReadsLeaveTable ==
    [][(resp = NoResponse /\ resp'.op \in {"status", "status_all"})
       => /\ DOMAIN installation_status' = DOMAIN installation_status
          /\ \A c \in DOMAIN installation_status :
                /\ installation_status'[c] = installation_status[c]
                /\ DOMAIN installation_status'[c] =
                      {"status", "progress", "message", "started_at", "component"}
          /\ tasks' = tasks
          /\ accepted' = accepted]_vars

\* A read has reported installing for a component whose stored status is, and
\* still is, completed.
C27_Witness ==
    /\ resp.op = "status"
    /\ resp.status = "installing"
    /\ resp.stored = "completed"
    /\ resp.pods_running # Absent
    /\ installation_status[resp.component].status = "completed"
    /\ installation_status[resp.component].progress = 100

\* C28: the read path and the start guard agree: in a state in which a status
\* read of a component reports installing, an install request for it is
\* rejected with already_installing.
C28_ReadAndGuardAgree ==
    (resp.op = "status" /\ resp.http = 200 /\ resp.status = "installing")
    => InstallGuardRejects(resp.component)

\* C28, as the code has it: a read reports installing when the stored status is
\* installing or when it downgrades a stored completed, and in that state
\* install_app rejects exactly when the stored status is installing.
C28_GuardFollowsStored ==
    (resp.op = "status" /\ resp.http = 200 /\ resp.status = "installing")
    => /\ resp.stored \in {"installing", "completed"}
       /\ resp.stored = StoredStatus(resp.component)
       /\ InstallGuardRejects(resp.component) <=> resp.stored = "installing"

\* A read has reported installing for jellyfin, stored as completed, in a
\* state in which install_app would accept one more operation.
C28_Witness ==
    /\ resp.op = "status"
    /\ resp.component = "jellyfin"
    /\ resp.status = "installing"
    /\ StoredStatus("jellyfin") = "completed"
    /\ ~InstallGuardRejects("jellyfin")
    /\ Len(accepted) < run.ops

\* C29: operations on different components are independent.  The answer to a
\* start request for a component is decided by the stored status of that
\* component alone, and a step changes the entry of a component only if it is
\* the step of a handler that accepts an operation for it or of a wrapper of it.
C29_ComponentsIndependent ==
    [][/\ (resp = NoResponse /\ resp'.op \in StartOps /\ resp'.http = 200)
          => /\ resp'.stored = StoredStatus(resp'.component)
             /\ resp'.status =
                   IF resp'.op = "install"
                   THEN IF resp'.stored = "installing"
                        THEN "already_installing" ELSE "started"
                   ELSE IF resp'.stored \in {"installing", "uninstalling", "restarting"}
                        THEN "already_processing" ELSE "started"
       /\ \A b \in DOMAIN installation_status' :
             (~HasEntry(b) \/ installation_status'[b] # installation_status[b])
             => \/ /\ Len(accepted') = Len(accepted) + 1
                   /\ accepted'[Len(accepted')].component = b
                \/ /\ accepted' = accepted
                   /\ \E t \in TasksOf(b) : t \notin tasks' \/ tasks' = tasks]_vars

\* install(sonarr) and install(jellyfin) are both in flight, each past its
\* first write.
C29_Witness ==
    /\ \E t \in tasks : t.component = "sonarr" /\ t.kind = "install" /\ t.pc = "steps"
    /\ \E t \in tasks : t.component = "jellyfin" /\ t.kind = "install" /\ t.pc = "sleeping"
    /\ StoredStatus("sonarr") = "installing"
    /\ StoredStatus("jellyfin") = "installing"

\* C30: a status read of a pod-tracked component whose stored status is
\* installing and that finds at least one pod reports
\* max(stored progress, 15 + min(70 * ready / expected, 70)), truncated to an
\* integer, with expected 8 for monitoring and 1 for jellyfin and ready the
\* number of pods that are Running with all containers ready.
C30_InstallingReadProgress ==
    (/\ resp.op = "status"
     /\ resp.component \in {"monitoring", "jellyfin"}
     /\ resp.stored = "installing"
     /\ resp.probe.fail = "ok"
     /\ resp.probe.total >= 1)
    => LET expected == IF resp.component = "monitoring" THEN 8 ELSE 1
           ready == resp.probe.running_pods
           fraction == (70 * ready) \div expected
       IN  /\ resp.status = "installing"
           /\ resp.pods_running = ready
           /\ resp.total_pods = resp.probe.total
           /\ resp.progress =
                 Max(installation_status[resp.component].progress,
                     15 + (IF fraction < 70 THEN fraction ELSE 70))

\* A read of monitoring while it installs has found 3 of 8 pods ready and
\* reported progress 41.
C30_Witness ==
    /\ resp.op = "status"
    /\ resp.component = "monitoring"
    /\ resp.stored = "installing"
    /\ resp.probe.running_pods = 3
    /\ resp.progress = 41

\* C31: whenever a status read downgrades a stored completed to installing,
\* the reported progress is an integer in 90..99, for every number of ready
\* pods below the completion threshold.
C31_DowngradeProgressRange ==
    (/\ resp.op = "status"
     /\ resp.http = 200
     /\ resp.stored = "completed"
     /\ resp.status = "installing")
    => /\ resp.progress \in 90..99
       /\ resp.component \in {"monitoring", "jellyfin"}
       /\ resp.probe.running_pods < (IF resp.component = "monitoring" THEN 6 ELSE 1)
       /\ installation_status[resp.component].status = "completed"

\* A read of monitoring, stored as completed, has found 5 of 8 pods ready and
\* reported installing with progress 96.
C31_Witness ==
    /\ resp.op = "status"
    /\ resp.component = "monitoring"
    /\ resp.stored = "completed"
    /\ resp.status = "installing"
    /\ resp.probe.running_pods = 5
    /\ resp.progress = 96

\* C32: entries are never removed from the status table: its key set only
\* grows and holds the component of every accepted operation; each newly
\* accepted operation replaces the whole entry with a fresh one whose status
\* is the in-progress status of the operation and whose progress is 0.
C32_EntriesKeptAndReplaced ==
    [][/\ DOMAIN installation_status \subseteq DOMAIN installation_status'
       /\ \A i \in 1..Len(accepted') :
             accepted'[i].component \in DOMAIN installation_status'
       /\ accepted' # accepted
          => LET a == accepted'[Len(accepted')]
                 e == installation_status'[a.component]
             IN  /\ accepted' = Append(accepted, a)
                 /\ DOMAIN e = {"status", "progress", "message", "started_at", "component"}
                 /\ e.status = (IF a.op = "install" THEN "installing"
                                ELSE IF a.op = "uninstall" THEN "uninstalling"
                                ELSE "restarting")
                 /\ e.progress = 0
                 /\ e.started_at = Len(accepted')
                 /\ e.component = a.component]_vars

\* An install accepted over an entry left in error has replaced it with a
\* fresh entry.
C32_Witness ==
    /\ resp.op = "install"
    /\ resp.status = "started"
    /\ resp.stored = "error"
    /\ Len(accepted) = 2
    /\ installation_status[resp.component].status = "installing"
    /\ installation_status[resp.component].progress = 0
    /\ installation_status[resp.component].started_at = 2

\* C33: if the release removal, the deletion of the GitOps custom object or
\* the cleanup of leftover resources fails during an uninstall, the uninstall
\* still returns true, the stored status becomes not_installed, and a
\* following install request for the component is accepted.
C33_PartialFailureTolerated ==
    (/\ resp.op = "deployer"
     /\ resp.kind = "uninstall"
     /\ \/ resp.call.gitops \in {"failed", "raised"}
        \/ resp.call.release \in {"failed", "raised"}
        \/ resp.call.cleanup \in {"failed", "raised"})
    => /\ resp.outcome.result = "true"
       /\ StoredStatus(resp.component) = "not_installed"
       /\ ~InstallGuardRejects(resp.component)

\* C34: no uninstall, for any component and any outcome of its cleanup steps,
\* deletes the namespace of the component.
C34_NamespaceKept ==
    (resp.op = "deployer" /\ resp.kind = "uninstall")
    => ~resp.outcome.namespace_deleted

\* C35: during install a namespace creation answered "already exists" counts
\* as success and the install goes on to its next step; any other failure of
\* the creation aborts the install, which ends with stored status error and
\* progress 0, and the package manager is not invoked.
C35_NamespaceCreation ==
    (/\ resp.op = "deployer"
     /\ resp.kind = "install"
     /\ resp.call.namespace # Skipped)
    => LET c == resp.component IN
       IF resp.call.namespace \in {"ok", "exists"}
       THEN IF c = "monitoring"
            THEN /\ resp.outcome.release_invoked
                 /\ resp.outcome.result =
                       (IF resp.call.release = "ok" THEN "true"
                        ELSE IF resp.call.release = "failed" THEN "false" ELSE "raised")
            ELSE /\ resp.outcome.result = "running"
                 /\ \E t \in TasksOf(c) : t.kind = "install" /\ t.pc = "awaiting"
       ELSE /\ resp.outcome.result = "raised"
            /\ ~resp.outcome.release_invoked
            /\ IF c = "monitoring"
               THEN /\ \E t \in TasksOf(c) :
                          t.kind = "install" /\ t.pc = "sleeping" /\ t.dep = "raised"
                    /\ LET e == Failure_(installation_status, c, "Installation failed")[c]
                       IN  e.status = "error" /\ e.progress = 0
               ELSE /\ installation_status[c].status = "error"
                    /\ installation_status[c].progress = 0

\* The namespace of sonarr could not be created and the install has ended in
\* error with progress 0.
C35_Witness ==
    /\ resp.op = "deployer"
    /\ resp.kind = "install"
    /\ resp.component = "sonarr"
    /\ resp.call.namespace = "failed"
    /\ installation_status["sonarr"].status = "error"
    /\ installation_status["sonarr"].progress = 0
    /\ TasksOf("sonarr") = {}

\* C36: install is idempotent with respect to the resources it creates: when
\* the namespace, the repository secret or the GitOps Application object
\* exists already and nothing else goes wrong, the deployer neither raises nor
\* returns false.
C36_ExistingResourceTolerated ==
    (/\ resp.op = "deployer"
     /\ resp.kind = "install"
     /\ "exists" \in {resp.call.namespace, resp.call.secret, resp.call.gitops}
     /\ {resp.call.namespace, resp.call.secret, resp.call.gitops, resp.call.release}
           \subseteq {"ok", "exists", Skipped})
    => resp.outcome.result \in {"true", "running"}

\* C37: the deployer's restart returns true whenever at least one Deployment
\* exists in the namespace, even if every patch fails, and returns false only
\* when no Deployment was found.
C37_TrueWheneverDeployments ==
    (resp.op = "deployer" /\ resp.kind = "restart")
    => /\ resp.call.deployments = "some" => resp.outcome.result = "true"
       /\ resp.outcome.result = "false" => resp.call.deployments = "none"

\* C37, as the code has it: with at least one Deployment found and the
\* StatefulSets listed, restart returns true whatever the patches do; it
\* returns false only for monitoring and jellyfin with no Deployment found
\* (for any other component it goes on and returns true); it raises when the
\* listing of the Deployments or of the StatefulSets fails.
C37_RestartResult ==
    (resp.op = "deployer" /\ resp.kind = "restart")
    => LET c == resp.component
           call == resp.call
           result == resp.outcome.result
       IN  /\ (call.deployments = "some" /\ call.statefulsets = "ok") => result = "true"
           /\ result = "false"
              <=> (call.deployments = "none" /\ c \in {"monitoring", "jellyfin"})
           /\ result = "raised"
              <=> \/ call.deployments = "raised"
                  \/ /\ call.statefulsets = "raised"
                     /\ ~(call.deployments = "none" /\ c \in {"monitoring", "jellyfin"})

\* A restart of jellyfin found Deployments, every patch failed, and the
\* restart is stored as completed.
C37_Witness ==
    /\ resp.op = "deployer"
    /\ resp.kind = "restart"
    /\ resp.component = "jellyfin"
    /\ resp.call.deployments = "some"
    /\ resp.call.patches = "failed"
    /\ resp.outcome.result = "true"
    /\ installation_status["jellyfin"].status = "completed"

\* C38: once an operation has been accepted for a component no later status
\* read of it returns the synthesized status installed: installed is returned
\* only while the component has no entry in the status table, whatever the
\* cluster shows.
C38_InstalledOnlyWithoutEntry ==
    (resp.op = "status" /\ resp.status = "installed")
    => /\ ~HasEntry(resp.component)
       /\ resp.stored = None
       /\ \A i \in 1..Len(accepted) : accepted[i].component # resp.component

\* After an uninstall of jellyfin a read finds its pod still ready and
\* answers from the entry, not_installed.
C38_Witness ==
    /\ resp.op = "status"
    /\ resp.component = "jellyfin"
    /\ Len(accepted) >= 1
    /\ resp.probe.fail = "ok"
    /\ resp.probe.running_pods >= 1
    /\ resp.stored = "not_installed"
    /\ resp.status = "not_installed"

\* C39: every status response whose status is error carries progress 0,
\* whether the error comes from the stored entry or is made by the read.
C39_ErrorReadsProgressZero ==
    (resp.op = "status" /\ resp.http = 200 /\ resp.status = "error")
    => resp.progress = 0

\* C40: in a restart of monitoring the monitoring loop takes at most 60
\* samples, wait_time rising by 3 with each of them and never beyond 180, and
\* only while the restart call has not resolved; none of them changes the
\* status of the entry.  Past the loop the wrapper moves only once the restart
\* call has resolved, and then it ends with one write of a final status:
\* completed with progress 100, restarting with progress 95, or error with
\* progress 0.
C40_LoopBoundedThenFinal ==
    [][\A t \in tasks :
          (t.kind = "restart" /\ t.component = "monitoring" /\ t.pc = "sleeping")
          => \/ t \in tasks'
             \/ /\ t.dep = "running"
                /\ \E u \in tasks' \ tasks :
                      /\ Resolved(u)
                      /\ u = [t EXCEPT !.dep = u.dep]
                /\ installation_status' = installation_status
             \/ /\ t.dep = "running"
                /\ t.wait < max_wait_time
                /\ \E u \in tasks' \ tasks :
                      /\ u = [t EXCEPT !.wait = t.wait + RestartLoopStep,
                                       !.restart_started = u.restart_started]
                      /\ u.wait <= max_wait_time
                      /\ u.wait \div RestartLoopStep <= 60
                /\ installation_status'[t.component].status =
                      installation_status[t.component].status
             \/ /\ Resolved(t)
                /\ tasks' = tasks \ {t}
                /\ <<installation_status'[t.component].status,
                     installation_status'[t.component].progress>>
                      \in {<<"completed", 100>>, <<"restarting", 95>>, <<"error", 0>>}
      ]_vars

\* The loop of a monitoring restart has taken its 60 samples and the restart
\* call has still not resolved: the wrapper waits for the call alone.
C40_Witness ==
    \E t \in tasks :
       /\ t.kind = "restart" /\ t.component = "monitoring"
       /\ t.pc = "sleeping"
       /\ t.dep = "running"
       /\ t.wait = max_wait_time
       /\ t.wait \div RestartLoopStep = 60
       /\ installation_status[t.component].status = "restarting"

====
